---- MODULE Spec2Model ----
(***************************************************************************)
(* Model of the SC retail property scrubber (johnsoncomm/sc-retail-        *)
(* scrubber): the single-pass scrubber (src/cre_scrub_tool.py, first       *)
(* script) and the property + owner join scrubber (second script of        *)
(* src/cre_scrub_tool.py and src/cre_scrub_tool_join.py).                  *)
(*                                                                         *)
(* Strings are sequences of one-character strings, so that lower-casing,   *)
(* stripping and the regular-expression substitution are computed.  A cell *)
(* of a data frame is a record [k, s, n, sc]:                              *)
(*   k = "nan"  float NaN (an empty cell as pandas reads it, or a failed   *)
(*              numeric coercion)                                          *)
(*   k = "na"   pd.NA                                                      *)
(*   k = "str"  the string s                                               *)
(*   k = "num"  the number n / 10^sc                                       *)
(***************************************************************************)
EXTENDS Integers, Sequences, FiniteSets, TLC

VARIABLES
    variant,        \* the script that runs: "scrub", "join_v1" or "join"
    pc,             \* position of the script
    uploaded_files, \* the uploaded files, each [readable, sheets]
    idx,            \* index of the uploaded file the loop visits next
    frames,         \* scrub: the list `frames`
    prop_frames,    \* join: the list `prop_frames`
    owner_frames,   \* join: the list `owner_frames`
    merged,         \* join: the frame `merged`
    result,         \* the frame `result` (scrub) / `filtered` (join)
    errors,         \* the st.error messages shown, in order
    success,        \* the st.success message shown: <<n>> or <<>>
    download,       \* the worksheets offered by st.download_button
    exc,            \* the uncaught exception that ended the script, or "none"
    val,            \* numeric cleaner: the cell handed to _clean_numeric
    cleaned         \* numeric cleaner: <<the cell it returned>> or <<>>

vars == <<variant, pc, uploaded_files, idx, frames, prop_frames, owner_frames, merged,
          result, errors, success, download, exc, val, cleaned>>

----------------------------------------------------------------------------
(* Bounds of the model. *)

MaxLen == 4        \* length of the strings handed to the numeric cleaner
MaxFiles == 2      \* number of uploaded files
MaxRows == 1       \* rows of a sheet
JoinMaxRows == 2   \* rows of a sheet where a sheet-wide decision is examined

----------------------------------------------------------------------------
(* Characters and strings. *)

UpperChars == <<"A","B","C","D","E","F","G","H","I","J","K","L","M",
                "N","O","P","Q","R","S","T","U","V","W","X","Y","Z">>
LowerChars == <<"a","b","c","d","e","f","g","h","i","j","k","l","m",
                "n","o","p","q","r","s","t","u","v","w","x","y","z">>
Digits == <<"0","1","2","3","4","5","6","7","8","9">>

IsIn(c, tab) == \E i \in 1..Len(tab) : tab[i] = c
IndexIn(c, tab) == CHOOSE i \in 1..Len(tab) : tab[i] = c

IsDigit(c) == IsIn(c, Digits)
DigitVal(c) == IndexIn(c, Digits) - 1

CharLower(c) == IF IsIn(c, UpperChars) THEN LowerChars[IndexIn(c, UpperChars)] ELSE c
CharUpper(c) == IF IsIn(c, LowerChars) THEN UpperChars[IndexIn(c, LowerChars)] ELSE c

\* str.lower() / str.upper()
StrLower(s) == [i \in 1..Len(s) |-> CharLower(s[i])]
StrUpper(s) == [i \in 1..Len(s) |-> CharUpper(s[i])]

IsSpace(c) == c \in {" ", "\t", "\n", "\r", "\f"}

\* str.strip(): leading and trailing whitespace removed
RECURSIVE LStrip(_)
LStrip(s) == IF s # <<>> /\ IsSpace(Head(s)) THEN LStrip(Tail(s)) ELSE s
RECURSIVE RStrip(_)
RStrip(s) ==
    IF s # <<>> /\ IsSpace(s[Len(s)]) THEN RStrip(SubSeq(s, 1, Len(s) - 1)) ELSE s
StrStrip(s) == RStrip(LStrip(s))

\* `sub in s`
StrContains(s, sub) ==
    \E i \in 0..(Len(s) - Len(sub)) : SubSeq(s, i + 1, i + Len(sub)) = sub


----------------------------------------------------------------------------
(* Cells. *)

NaN == [k |-> "nan", s |-> <<>>, n |-> 0, sc |-> 0]
NA == [k |-> "na", s |-> <<>>, n |-> 0, sc |-> 0]
Str(s) == [k |-> "str", s |-> s, n |-> 0, sc |-> 0]

\* a number is kept in lowest terms of its decimal scale: 1.50 is 15 / 10^1
RECURSIVE Num(_, _)
Num(n, sc) ==
    IF sc > 0 /\ n % 10 = 0 THEN Num(n \div 10, sc - 1)
    ELSE [k |-> "num", s |-> <<>>, n |-> n, sc |-> sc]

\* pd.isna / Series.notna on one cell
IsNa(c) == c.k \in {"nan", "na"}
IsStr(c) == c.k = "str"
IsNum(c) == c.k = "num"

RECURSIVE Pow10(_)
Pow10(e) == IF e = 0 THEN 1 ELSE 10 * Pow10(e - 1)

RECURSIVE NatToStr(_)
NatToStr(n) ==
    IF n < 10 THEN <<Digits[n + 1]>>
    ELSE NatToStr(n \div 10) \o <<Digits[(n % 10) + 1]>>

RECURSIVE ZeroPad(_, _)
ZeroPad(s, w) == IF Len(s) >= w THEN s ELSE ZeroPad(<<"0">> \o s, w)

\* str(val) / Series.astype(str) on one cell
AsStr(c) ==
    CASE c.k = "nan" -> <<"n","a","n">>
      [] c.k = "na"  -> <<"<","N","A",">">>
      [] c.k = "str" -> c.s
      [] c.k = "num" ->
            IF c.sc = 0 THEN NatToStr(c.n)
            ELSE NatToStr(c.n \div Pow10(c.sc)) \o <<".">>
                 \o ZeroPad(NatToStr(c.n % Pow10(c.sc)), c.sc)

----------------------------------------------------------------------------
(* Numeric cleaner. *)

IsNumericChar(c) == IsDigit(c) \/ c = "."

\* re.sub(r"[^0-9.]", "", s)
ReSubNonNumeric(s) == SelectSeq(s, IsNumericChar)

RECURSIVE DigitsToNat(_)
DigitsToNat(s) ==
    IF s = <<>> THEN 0
    ELSE 10 * DigitsToNat(SubSeq(s, 1, Len(s) - 1)) + DigitVal(s[Len(s)])

\* pd.to_numeric(s, errors="coerce") of a string: the number it spells, else NaN
ToNumeric(s) ==
    LET dots == {i \in 1..Len(s) : s[i] = "."}
        wellFormed == /\ \A i \in 1..Len(s) : IsNumericChar(s[i])
                      /\ Cardinality(dots) <= 1
                      /\ \E i \in 1..Len(s) : IsDigit(s[i])
    IN  IF ~wellFormed THEN NaN
        ELSE IF dots = {} THEN Num(DigitsToNat(s), 0)
        ELSE LET d == CHOOSE i \in dots : TRUE
                 frac == SubSeq(s, d + 1, Len(s))
             IN  Num(DigitsToNat(SubSeq(s, 1, d - 1) \o frac), Len(frac))

\* the cleaner without its re.sub
clean_numeric_unstripped(v) ==
    IF IsNa(v) THEN NA
    ELSE ToNumeric(AsStr(v))

_clean_numeric(v) ==
    IF IsNa(v) THEN NA
    ELSE ToNumeric(ReSubNonNumeric(AsStr(v)))

----------------------------------------------------------------------------
(* Data frames: [cols |-> the column labels, rows |-> the rows in order],   *)
(* a row being a function from cols to cells.                               *)

NoFrame == [cols |-> {}, rows |-> <<>>]

Column(df, c) == [i \in 1..Len(df.rows) |-> df.rows[i][c]]

\* df[c] = values (a sequence, one cell per row)
SetColumn(df, c, values) ==
    [cols |-> df.cols \cup {c},
     rows |-> [i \in 1..Len(df.rows) |->
                 [x \in df.cols \cup {c} |->
                     IF x = c THEN values[i] ELSE df.rows[i][x]]]]

\* df[c] = scalar
SetScalar(df, c, cell) == SetColumn(df, c, [i \in 1..Len(df.rows) |-> cell])

\* df.rename(columns=m), m a function on a subset of the labels
Rename(df, m) ==
    LET new(c) == IF c \in DOMAIN m THEN m[c] ELSE c
        old(d) == CHOOSE c \in df.cols : new(c) = d
        ncols == {new(c) : c \in df.cols}
    IN  [cols |-> ncols,
         rows |-> [i \in 1..Len(df.rows) |-> [d \in ncols |-> df.rows[i][old(d)]]]]

\* df.loc[mask], given the rows the mask selects
Loc(df, kept) == [cols |-> df.cols, rows |-> kept]

\* df[list]: the listed columns only
Project(df, list) ==
    [cols |-> list, rows |-> [i \in 1..Len(df.rows) |-> [c \in list |-> df.rows[i][c]]]]

RECURSIVE AllCols(_)
AllCols(fs) == IF fs = <<>> THEN {} ELSE Head(fs).cols \cup AllCols(Tail(fs))

RECURSIVE ConcatRows(_, _)
ConcatRows(fs, cols) ==
    IF fs = <<>> THEN <<>>
    ELSE LET f == Head(fs)
         IN  [i \in 1..Len(f.rows) |->
                [c \in cols |-> IF c \in f.cols THEN f.rows[i][c] ELSE NaN]]
             \o ConcatRows(Tail(fs), cols)

\* pd.concat(fs, ignore_index=True): union of the columns, NaN where absent
Concat(fs) == [cols |-> AllCols(fs), rows |-> ConcatRows(fs, AllCols(fs))]

\* Series.str on a column whose values are all floats raises AttributeError
\* (pandas reads an entirely empty column as float64)
StrAccessorRaises(df, c) ==
    /\ Len(df.rows) > 0
    /\ \A i \in 1..Len(df.rows) : df.rows[i][c].k \in {"nan", "num"}

----------------------------------------------------------------------------
(* Filter bounds (both scripts). *)

MinSize == 1500
MaxSize == 30000

retail == <<"r","e","t","a","i","l">>
SC == <<"S","C">>

\* Series.str.contains("retail", case=False, na=False) on one cell
ContainsRetail(c) == IsStr(c) /\ StrContains(StrLower(c.s), retail)

\* Series.str.upper() == "SC" on one cell
IsSC(c) == IsStr(c) /\ StrUpper(c.s) = SC

\* (x >= 1500) & (x <= 30000) / Series.between(1500, 30000, inclusive="both")
Between(c) ==
    /\ IsNum(c)
    /\ c.n >= MinSize * Pow10(c.sc)
    /\ c.n <= MaxSize * Pow10(c.sc)

----------------------------------------------------------------------------
(* The single-pass scrubber: src/cre_scrub_tool.py, lines 1-170.            *)

COLUMN_MAP ==
    [h \in {"Property Name", "Name", "Property"} |-> "property_name"] @@
    [h \in {"Address", "Street Address", "Property Address"} |-> "address"] @@
    [h \in {"City"} |-> "city"] @@
    [h \in {"State", "State/Province"} |-> "state"] @@
    [h \in {"Market"} |-> "market"] @@
    [h \in {"Property Type", "Type", "Property Subtype", "Primary Use"}
        |-> "property_type"] @@
    [h \in {"Owner Name", "Owner", "Ownership"} |-> "owner_name"] @@
    [h \in {"Owner Phone", "Owner Primary Phone", "Contact Number"} |-> "owner_phone"] @@
    [h \in {"Primary Contact", "Contact Name"} |-> "contact_name"] @@
    [h \in {"Contact Phone"} |-> "contact_phone"] @@
    [h \in {"Asking Price", "Price"} |-> "asking_price"] @@
    [h \in {"Company Name"} |-> "company_name"] @@
    [h \in {"Company Address"} |-> "company_address"] @@
    [h \in {"Company Phone"} |-> "company_phone"]

KEY_COLUMNS_OUTPUT ==
    <<"property_name", "address", "city", "state", "size_sf", "asking_price",
      "owner_name", "owner_phone", "contact_name", "contact_phone",
      "company_name", "company_address", "company_phone">>

size_cols ==
    <<"RBA", "Total Available Space (SF)", "Rentable Building Area", "GLA",
      "Gross Leasable Area", "Building Size (SF)">>

Range(seq) == {seq[i] : i \in 1..Len(seq)}

normalise_columns(df) ==
    Rename(df, [old \in DOMAIN COLUMN_MAP \cap df.cols |-> COLUMN_MAP[old]])

\* the first entry of `order` that is a column of df, as a set of at most one
FirstPresent(order, df) ==
    {order[i] : i \in {j \in 1..Len(order) :
                          /\ order[j] \in df.cols
                          /\ \A k \in 1..(j - 1) : order[k] \notin df.cols}}

SizeSource(df) == FirstPresent(size_cols, df)

add_size_column(df) ==
    LET src == SizeSource(df)
    IN  IF src # {}
        THEN LET col == CHOOSE c \in src : TRUE
             IN  SetColumn(df, "size_sf",
                           [i \in 1..Len(df.rows) |-> _clean_numeric(df.rows[i][col])])
        ELSE IF "size_sf" \notin df.cols THEN SetScalar(df, "size_sf", NA)
        ELSE df

\* lines 111-115 of filter_sc_retail: the frame the mask is computed on
FilterPrepare(df) ==
    LET d1 == IF "property_type" \notin df.cols
              THEN SetScalar(df, "property_type", NA) ELSE df
        d2 == IF "state" \notin d1.cols THEN SetScalar(d1, "state", NA) ELSE d1
        d3 == SetColumn(d2, "property_type",
                        [i \in 1..Len(d2.rows) |-> Str(AsStr(d2.rows[i]["property_type"]))])
    IN  add_size_column(d3)

ScrubMask(row) ==
    /\ ContainsRetail(row["property_type"])
    /\ IsSC(row["state"])
    /\ Between(row["size_sf"])

\* whether filter_sc_retail(df) raises
FilterRaises(df) == StrAccessorRaises(FilterPrepare(df), "state")

filter_sc_retail(df) == Loc(FilterPrepare(df), SelectSeq(FilterPrepare(df).rows, ScrubMask))

----------------------------------------------------------------------------
(* The property + owner join scrubber: src/cre_scrub_tool_join.py, and its  *)
(* earlier revision, the second script of src/cre_scrub_tool.py ("join_v1").*)

JOIN_COLUMN_MAP ==
    [h \in {"Property Name", "Name", "Property"} |-> "property_name"] @@
    [h \in {"Address", "Street Address", "Property Address"} |-> "address"] @@
    [h \in {"City"} |-> "city"] @@
    [h \in {"State", "State/Province"} |-> "state"] @@
    [h \in {"Property Type", "Type", "Property Subtype", "Primary Use"}
        |-> "property_type"] @@
    [h \in {"RBA", "Rentable Building Area", "Building Size (SF)", "GLA",
            "Gross Leasable Area", "Total Available Space (SF)"} |-> "size_sf"] @@
    [h \in {"Company Name"} |-> "company_name"] @@
    [h \in {"Company Address"} |-> "company_address"] @@
    [h \in {"Phone", "Owner Phone"} |-> "company_phone"]

OUT_COLS ==
    <<"property_name", "address", "city", "state", "size_sf",
      "company_name", "company_address", "company_phone">>

alt_size_cols == <<"RBA", "Total Available Space (SF)", "Rentable Building Area">>

\* the label COLUMN_MAP.get(c, c)
Renamed(c) == IF c \in DOMAIN JOIN_COLUMN_MAP THEN JOIN_COLUMN_MAP[c] ELSE c

\* two or more headers of the sheet are renamed to "size_sf"
DupSize(df) == Cardinality({c \in df.cols : Renamed(c) = "size_sf"}) > 1

\* a join key without lower(): keys that differ in letter case stay apart
KeyFromCased(row, c) == Str(StrStrip(AsStr(row[c])))

\* the join key of one row, from column c
KeyFrom(row, c) == Str(StrLower(StrStrip(AsStr(row[c]))))

\* the column normalise takes the join key from, as a set of at most one
KeySource(v, df) ==
    IF v = "join_v1" THEN {"address"}
    ELSE IF "address" \in df.cols
            /\ \E i \in 1..Len(df.rows) : ~IsNa(df.rows[i]["address"])
         THEN {"address"}
    ELSE IF "property_name" \in df.cols THEN {"property_name"}
    ELSE {}

\* the exception normalise(df) ends with, or "none".  With two size headers
\* df["size_sf"] is a two-column frame: apply() hands _clean_numeric whole
\* columns, which it answers with pd.NA, and the assignment of that result
\* either raises (duplicate labels) or leaves no size: `lenient` picks.
NormaliseRaises(v, df, lenient) ==
    IF DupSize(df) /\ ~lenient THEN "ValueError"
    ELSE IF v = "join_v1" /\ "address" \notin {Renamed(c) : c \in df.cols}
         THEN "KeyError"
    ELSE "none"

normalise(v, df) ==
    LET d1 == Rename(df, [c \in df.cols |-> Renamed(c)])
        alt == FirstPresent(alt_size_cols, d1)
        d2 == IF "size_sf" \in d1.cols THEN d1
              ELSE IF alt # {}
                   THEN SetColumn(d1, "size_sf", Column(d1, CHOOSE c \in alt : TRUE))
              ELSE IF v = "join" THEN SetScalar(d1, "size_sf", NA)
              ELSE d1
        d3 == IF DupSize(df) \/ "size_sf" \notin d2.cols
              THEN SetScalar(d2, "size_sf", NA)
              ELSE SetColumn(d2, "size_sf",
                             [i \in 1..Len(d2.rows) |->
                                 _clean_numeric(d2.rows[i]["size_sf"])])
        src == KeySource(v, d3)
    IN  IF src = {} THEN SetScalar(d3, "address_key", Str(<<>>))
        ELSE SetColumn(d3, "address_key",
                       [i \in 1..Len(d3.rows) |->
                           KeyFrom(d3.rows[i], CHOOSE c \in src : TRUE)])

\* a classifier that asks for a value in one of the two columns
IsOwnerSheetByValue(df) ==
    \E c \in {"company_name", "company_phone"} \cap df.cols :
        \E i \in 1..Len(df.rows) : ~IsNa(df.rows[i][c])

\* {"company_name", "company_phone"}.intersection(sheet.columns)
IsOwnerSheet(df) == {"company_name", "company_phone"} \cap df.cols # {}

OwnerCols == {"address_key", "company_name", "company_address", "company_phone"}

prop_df == Concat(prop_frames)

owners_df ==
    IF owner_frames # <<>> THEN Concat(owner_frames)
    ELSE [cols |-> {"address_key"}, rows |-> <<>>]

\* owners_df[[...]] raises KeyError when a listed column is absent
SelectRaises == ~(OwnerCols \subseteq owners_df.cols)

\* left.merge(right, on=key, how="left"): every left row once per right row
\* of equal key, in order, or once with NaN when there is none; columns of
\* both sides other than the key get the suffixes _x and _y
RECURSIVE MergeRows(_, _, _, _)
MergeRows(lrows, right, key, cols) ==
    IF lrows = <<>> THEN <<>>
    ELSE LET l == Head(lrows)
             lcols == DOMAIN l
             both == (lcols \cap right.cols) \ {key}
             cell(c, r) ==
                 IF c \in lcols \ both THEN l[c]
                 ELSE IF c \in right.cols \ both
                      THEN (IF r = 0 THEN NaN ELSE right.rows[r][c])
                 ELSE IF \E b \in both : c = b \o "_x"
                      THEN l[CHOOSE b \in both : c = b \o "_x"]
                 ELSE IF r = 0 THEN NaN
                      ELSE right.rows[r][CHOOSE b \in both : c = b \o "_y"]
             hits == SelectSeq([j \in 1..Len(right.rows) |-> j],
                               LAMBDA j : right.rows[j][key] = l[key])
             out == IF hits = <<>> THEN <<[c \in cols |-> cell(c, 0)]>>
                    ELSE [h \in 1..Len(hits) |-> [c \in cols |-> cell(c, hits[h])]]
         IN  out \o MergeRows(Tail(lrows), right, key, cols)

Merge(left, right, key) ==
    LET both == (left.cols \cap right.cols) \ {key}
        cols == ((left.cols \cup right.cols) \ both)
                \cup {b \o "_x" : b \in both} \cup {b \o "_y" : b \in both}
    IN  [cols |-> cols, rows |-> MergeRows(left.rows, right, key, cols)]

\* the exception the mask of the join scripts ends with, or "none"
JoinMaskRaises(df) ==
    IF "property_type" \notin df.cols \/ "state" \notin df.cols THEN "KeyError"
    ELSE IF StrAccessorRaises(df, "state") THEN "AttributeError"
    ELSE "none"

JoinMask(row) ==
    /\ ContainsRetail(Str(AsStr(row["property_type"])))
    /\ IsSC(row["state"])
    /\ Between(row["size_sf"])

\* for col in out: if col not in df: df[col] = pd.NA; then df[out]
Reorder(df, out) ==
    [cols |-> Range(out),
     rows |-> [i \in 1..Len(df.rows) |->
                 [c \in Range(out) |-> IF c \in df.cols THEN df.rows[i][c] ELSE NA]]]

----------------------------------------------------------------------------
(* The scripts, one action per loop iteration or step.  An uncaught          *)
(* exception ends the script where it is: exc names it and pc stays.        *)

Msg(kind, file) == [kind |-> kind, file |-> file]

\* scrub, lines 128-138: the file cannot be read: st.error and `continue`
ScrubReadError ==
    /\ exc = "none" /\ variant = "scrub" /\ pc = "files" /\ idx <= Len(uploaded_files)
    /\ ~uploaded_files[idx].readable
    /\ errors' = Append(errors, Msg("Could not read", idx))
    /\ idx' = idx + 1
    /\ UNCHANGED <<variant, pc, uploaded_files, frames, prop_frames, owner_frames,
                   merged, result, success, download, exc, val, cleaned>>

\* scrub, lines 128-143: the file is read and each sheet normalised and filtered
ScrubFile ==
    /\ exc = "none" /\ variant = "scrub" /\ pc = "files" /\ idx <= Len(uploaded_files)
    /\ uploaded_files[idx].readable
    /\ LET sheets == [i \in 1..Len(uploaded_files[idx].sheets) |->
                         normalise_columns(uploaded_files[idx].sheets[i])]
           bad == {i \in 1..Len(sheets) : FilterRaises(sheets[i])}
       IN  IF bad # {}
           THEN /\ exc' = "AttributeError"
                /\ UNCHANGED <<frames, idx, pc>>
           ELSE /\ frames' = frames \o [i \in 1..Len(sheets) |-> filter_sc_retail(sheets[i])]
                /\ idx' = idx + 1
                /\ UNCHANGED <<exc, pc>>
    /\ UNCHANGED <<variant, uploaded_files, prop_frames, owner_frames, merged, result,
                   errors, success, download, val, cleaned>>

\* scrub, lines 145-147: `if not frames`: st.error and st.stop()
ScrubStop ==
    /\ exc = "none" /\ variant = "scrub" /\ pc = "files" /\ idx > Len(uploaded_files)
    /\ frames = <<>>
    /\ errors' = Append(errors, Msg("No valid SC retail data found", 0))
    /\ pc' = "stopped"
    /\ UNCHANGED <<variant, uploaded_files, idx, frames, prop_frames, owner_frames,
                   merged, result, success, download, exc, val, cleaned>>

\* scrub, lines 149-168: concatenate, project, report and offer the download
ScrubFinish ==
    /\ exc = "none" /\ variant = "scrub" /\ pc = "files" /\ idx > Len(uploaded_files)
    /\ frames # <<>>
    /\ result' = Reorder(Concat(frames), KEY_COLUMNS_OUTPUT)
    /\ success' = <<Len(result'.rows)>>
    /\ download' = <<result'>>
    /\ pc' = "done"
    /\ UNCHANGED <<variant, uploaded_files, idx, frames, prop_frames, owner_frames,
                   merged, errors, exc, val, cleaned>>

\* join, lines 128-134: the file is loaded (no handler around load_all_sheets)
\* and each sheet normalised and put with the owner or the property frames
JoinFile ==
    /\ exc = "none" /\ variant \in {"join", "join_v1"} /\ pc = "files" /\ idx <= Len(uploaded_files)
    /\ \E lenient \in BOOLEAN :
         LET f == uploaded_files[idx]
             raises(i) == NormaliseRaises(variant, f.sheets[i], lenient)
             bad == {i \in 1..Len(f.sheets) : raises(i) # "none"}
             sheets == [i \in 1..Len(f.sheets) |-> normalise(variant, f.sheets[i])]
         IN  IF ~f.readable
             THEN /\ exc' = "ReadError"
                  /\ UNCHANGED <<prop_frames, owner_frames, idx, pc>>
             ELSE IF bad # {}
             THEN /\ exc' = raises(CHOOSE i \in bad : \A j \in bad : i <= j)
                  /\ UNCHANGED <<prop_frames, owner_frames, idx, pc>>
             ELSE /\ owner_frames' = owner_frames \o SelectSeq(sheets, IsOwnerSheet)
                  /\ prop_frames' = prop_frames
                        \o SelectSeq(sheets, LAMBDA d : ~IsOwnerSheet(d))
                  /\ idx' = idx + 1
                  /\ pc' = IF idx = Len(uploaded_files) THEN "merge" ELSE "files"
                  /\ exc' = exc
    /\ UNCHANGED <<variant, uploaded_files, frames, merged, result, errors, success,
                   download, val, cleaned>>

\* join, lines 136-138: no property sheet: st.error and st.stop()
JoinStop ==
    /\ exc = "none" /\ pc = "merge" /\ prop_frames = <<>>
    /\ errors' = Append(errors, Msg("No property sheet detected", 0))
    /\ pc' = "stopped"
    /\ UNCHANGED <<variant, uploaded_files, idx, frames, prop_frames, owner_frames,
                   merged, result, success, download, exc, val, cleaned>>

\* join, lines 140-147: concatenate both sides and merge on address_key
JoinMerge ==
    /\ exc = "none" /\ pc = "merge" /\ prop_frames # <<>>
    /\ IF SelectRaises
       THEN exc' = "KeyError" /\ UNCHANGED <<pc, merged>>
       ELSE /\ merged' = Merge(prop_df, Project(owners_df, OwnerCols), "address_key")
            /\ pc' = "filter"
            /\ exc' = exc
    /\ UNCHANGED <<variant, uploaded_files, idx, frames, prop_frames, owner_frames,
                   result, errors, success, download, val, cleaned>>

\* join, lines 149-156: the Retail / SC / size mask
JoinFilter ==
    /\ exc = "none" /\ pc = "filter"
    /\ IF JoinMaskRaises(merged) # "none"
       THEN exc' = JoinMaskRaises(merged) /\ UNCHANGED <<pc, result>>
       ELSE /\ result' = Loc(merged, SelectSeq(merged.rows, JoinMask))
            /\ pc' = "project"
            /\ exc' = exc
    /\ UNCHANGED <<variant, uploaded_files, idx, frames, prop_frames, owner_frames,
                   merged, errors, success, download, val, cleaned>>

\* join, lines 158-173: order the columns, report and offer the download
JoinProject ==
    /\ exc = "none" /\ pc = "project"
    /\ result' = Reorder(result, OUT_COLS)
    /\ success' = <<Len(result'.rows)>>
    /\ download' = <<result'>>
    /\ pc' = "done"
    /\ UNCHANGED <<variant, uploaded_files, idx, frames, prop_frames, owner_frames,
                   merged, errors, exc, val, cleaned>>

\* one call of _clean_numeric
CleanCell ==
    /\ pc = "clean"
    /\ cleaned' = <<_clean_numeric(val)>>
    /\ pc' = "cleaned"
    /\ UNCHANGED <<variant, uploaded_files, idx, frames, prop_frames, owner_frames,
                   merged, result, errors, success, download, exc, val>>

NextScrub == ScrubReadError \/ ScrubFile \/ ScrubStop \/ ScrubFinish
NextJoin == JoinFile \/ JoinStop \/ JoinMerge \/ JoinFilter \/ JoinProject
Next == NextScrub \/ NextJoin
NextClean == CleanCell

----------------------------------------------------------------------------
(* Inputs.  The headers drawn hold no two synonyms of one canonical field    *)
(* other than the size candidates, so only size_sf can occur twice in a     *)
(* renamed sheet.                                                           *)

\* the rows over the headers cs whose cells come from dom[h], header by header
RowsOver(cs, dom) ==
    {r \in [cs -> UNION {dom[h] : h \in cs}] : \A h \in cs : r[h] \in dom[h]}

SeqsUpTo(S, n) == UNION {[1..k -> S] : k \in 0..n}

SheetsOver(colsets, dom, maxRows) ==
    UNION {{[cols |-> cs, rows |-> rs] : rs \in SeqsUpTo(RowsOver(cs, dom), maxRows)}
           : cs \in colsets}

Unreadable == [readable |-> FALSE, sheets |-> <<>>]

\* a CSV or a one-sheet workbook per sheet, and a file that cannot be parsed
FilesOver(sheets) ==
    {Unreadable} \cup {[readable |-> TRUE, sheets |-> <<sh>>] : sh \in sheets}

\* the uploads: `if uploaded_files:` lets only a non-empty list through
UploadsOver(files) == SeqsUpTo(files, MaxFiles) \ {<<>>}

InitRun(variants, uploads) ==
    /\ variant \in variants
    /\ uploaded_files \in uploads
    /\ pc = "files"
    /\ idx = 1
    /\ frames = <<>>
    /\ prop_frames = <<>>
    /\ owner_frames = <<>>
    /\ merged = NoFrame
    /\ result = NoFrame
    /\ errors = <<>>
    /\ success = <<>>
    /\ download = <<>>
    /\ exc = "none"
    /\ val = NaN
    /\ cleaned = <<>>

\* --- numeric cleaner
CleanChars == {"1", "5", "0", ".", "$", ",", " ", "S"}

Sample_12345 == <<"$","1","2",",","3","4","5"," ","S","F">>
Sample_TwoDots == <<"1",",","2","3","4",".","5","6",".","7","8">>

CleanInputs ==
    {NaN, NA, Num(5000, 0), Num(15, 1)}
    \cup {Str(s) : s \in SeqsUpTo(CleanChars, MaxLen)}
    \cup {Str(Sample_12345), Str(Sample_TwoDots)}

InitClean ==
    /\ val \in CleanInputs
    /\ pc = "clean"
    /\ cleaned = <<>>
    /\ variant = "scrub"
    /\ uploaded_files = <<>>
    /\ idx = 1
    /\ frames = <<>>
    /\ prop_frames = <<>>
    /\ owner_frames = <<>>
    /\ merged = NoFrame
    /\ result = NoFrame
    /\ errors = <<>>
    /\ success = <<>>
    /\ download = <<>>
    /\ exc = "none"

SpecClean == InitClean /\ [][NextClean]_vars

\* --- cell values of the uploads
Retail == Str(<<"R","e","t","a","i","l">>)
StripRETAIL == Str(<<"x"," ","R","E","T","A","I","L">>)
Office == Str(<<"O","f","f","i","c","e">>)
StateSC == Str(<<"S","C">>)
StateSc == Str(<<"s","c">>)
StateNC == Str(<<"N","C">>)
Size1499 == Str(<<"1","4","9","9">>)
Size1500 == Str(<<"1",",","5","0","0">>)
Size30000 == Str(<<"3","0","0","0","0">>)
Size30001 == Str(<<"3","0","0","0","1">>)
Size40000 == Str(<<"4","0","0","0","0">>)
Addr1M == Str(<<"1"," ","M">>)
Addr1m == Str(<<" ","1"," ","m">>)
Addr1dotM == Str(<<"1",".","M">>)
NamePl == Str(<<"P","l"," ">>)
CityAy == Str(<<"A","y">>)
CoName == Str(<<"C","o">>)
CoAddr == Str(<<"9"," ","Z">>)
CoPhone == Str(<<"5","5","5">>)

\* --- filter and size-column inputs: property sheets with every combination
\* of type, state and size, property sheets lacking one of the three or
\* carrying two size headers, and an owner sheet
FilterDom ==
    [h \in {"Property Address"} |-> {Addr1M}] @@
    [h \in {"Property Type"} |-> {NaN, Retail, StripRETAIL, Office}] @@
    [h \in {"State"} |-> {NaN, StateSC, StateSc, StateNC}] @@
    [h \in {"RBA"} |-> {NaN, Size1499, Size1500, Size30000, Size30001}]

PartDom ==
    [h \in {"Property Address"} |-> {Addr1M}] @@
    [h \in {"Property Type"} |-> {Retail}] @@
    [h \in {"State"} |-> {StateSC}] @@
    [h \in {"RBA", "Building Size (SF)"} |-> {Size1500}] @@
    [h \in {"GLA"} |-> {Size40000}] @@
    [h \in {"Company Name"} |-> {CoName}] @@
    [h \in {"Company Address"} |-> {CoAddr}] @@
    [h \in {"Phone"} |-> {CoPhone}]

OwnerHeaders == {"Property Address", "Company Name", "Company Address", "Phone"}

FilterSheets ==
    SheetsOver({{"Property Address", "Property Type", "State", "RBA"}},
               FilterDom, MaxRows)
    \cup SheetsOver({{"Property Address", "State", "RBA"},
                     {"Property Address", "Property Type", "RBA"},
                     {"Property Address", "Property Type", "State"},
                     {"Property Address", "Property Type", "State", "Building Size (SF)"},
                     {"Property Address", "Property Type", "State", "GLA", "RBA"},
                     OwnerHeaders},
                    PartDom, MaxRows)

InitFilter ==
    InitRun({"scrub", "join", "join_v1"}, UploadsOver(FilesOver(FilterSheets)))

SpecFilter == InitFilter /\ [][Next]_vars

\* --- join inputs, two rows a sheet: property sheets with and without
\* address and name, owner sheets with and without address
JoinDom ==
    [h \in {"Property Address"} |-> {NaN, Addr1M}] @@
    [h \in {"Property Name"} |-> {NaN, NamePl}] @@
    PartDom

JoinSheets ==
    SheetsOver({{"Property Address", "Property Name", "Property Type", "State", "RBA"},
                {"Property Type", "State", "RBA"},
                OwnerHeaders,
                {"Company Name", "Company Address", "Phone"}},
               JoinDom, JoinMaxRows)

InitJoin == InitRun({"join", "join_v1"}, UploadsOver(FilesOver(JoinSheets)))

SpecJoin == InitJoin /\ [][NextJoin]_vars

\* --- key and classification inputs: addresses that differ in case, outer
\* whitespace or punctuation, owner sheets whose company columns hold a
\* value or none
KeyDom ==
    [h \in {"Property Address"} |-> {NaN, Addr1M, Addr1m, Addr1dotM}] @@
    [h \in {"City"} |-> {CityAy}] @@
    [h \in {"Company Name"} |-> {NaN, CoName}] @@
    [h \in {"Phone"} |-> {NaN}] @@
    PartDom

KeyOwnerDom == [h \in {"Property Address"} |-> {Addr1M}] @@ KeyDom

KeySheets ==
    SheetsOver({{"Property Address", "City", "Property Type", "State", "RBA"}},
               KeyDom, MaxRows)
    \cup SheetsOver({{"Property Address", "City", "Company Name", "Company Address",
                      "Phone"},
                     {"Property Address", "Phone"}},
                    KeyOwnerDom, MaxRows)

InitKey == InitRun({"join", "join_v1"}, UploadsOver(FilesOver(KeySheets)))

SpecKey == InitKey /\ [][NextJoin]_vars

----------------------------------------------------------------------------
(* Properties.                                                              *)

\* the cell of a row under label c, NaN when the row has no such label
CellOr(row, c) == IF c \in DOMAIN row THEN row[c] ELSE NaN

\* the frames the join scripts hold after normalise
JoinFrames == Range(prop_frames) \cup Range(owner_frames)

\* the sheets of the first k uploaded files that could be read, in order
RECURSIVE ReadSheets(_)
ReadSheets(k) ==
    IF k = 0 THEN <<>>
    ELSE ReadSheets(k - 1)
         \o (IF uploaded_files[k].readable THEN uploaded_files[k].sheets ELSE <<>>)

CountDigits(s) == Cardinality({i \in 1..Len(s) : IsDigit(s[i])})
CountDots(s) == Cardinality({i \in 1..Len(s) : s[i] = "."})

\* the digits of s read left to right as one decimal numeral
RECURSIVE Horner(_, _)
Horner(s, acc) ==
    IF s = <<>> THEN acc
    ELSE Horner(Tail(s), IF IsDigit(Head(s)) THEN 10 * acc + DigitVal(Head(s)) ELSE acc)

\* the number of digits of s to the right of its (only) dot
FractionDigits(s) ==
    Cardinality({i \in 1..Len(s) : IsDigit(s[i]) /\ \E d \in 1..(i - 1) : s[d] = "."})

(* C9: the numeric cleaner always returns; it returns null for a null or   *)
(* empty cell, for a string holding no digit, and for a string that keeps  *)
(* more than one dot; for a string of digits with at most one dot, wrapped *)
(* in or interleaved with other characters, it returns the number the      *)
(* digits and the dot spell ("$12,345 SF" gives 12345).                    *)
C9_NumericCleaner ==
    pc = "cleaned" =>
        /\ Len(cleaned) = 1
        /\ IsNa(val) => IsNa(cleaned[1])
        /\ IsStr(val) /\ CountDigits(val.s) = 0 => IsNa(cleaned[1])
        /\ IsStr(val) /\ CountDots(val.s) > 1 => IsNa(cleaned[1])
        /\ IsStr(val) /\ CountDigits(val.s) > 0 /\ CountDots(val.s) <= 1
              => /\ IsNum(cleaned[1])
                 /\ cleaned[1].n * Pow10(FractionDigits(val.s))
                       = Horner(val.s, 0) * Pow10(cleaned[1].sc)
        /\ val = Str(Sample_12345) => cleaned[1] = Num(12345, 0)
        /\ val = Str(Sample_TwoDots) => IsNa(cleaned[1])

C9_Witness ==
    /\ pc = "cleaned"
    /\ val = Str(Sample_12345)
    /\ cleaned = <<Num(12345, 0)>>

\* s with its outer whitespace removed and its letters lower-cased is k
IsTrimLowerOf(k, a) ==
    \E i \in 0..Len(a) : \E j \in i..Len(a) :
        /\ \A p \in 1..i : IsSpace(a[p])
        /\ \A p \in (j + 1)..Len(a) : IsSpace(a[p])
        /\ i < j => (~IsSpace(a[i + 1]) /\ ~IsSpace(a[j]))
        /\ Len(k) = j - i
        /\ \A q \in 1..Len(k) : k[q] = CharLower(a[i + q])

SameAddress(a, b) == StrLower(StrStrip(a.s)) = StrLower(StrStrip(b.s))

IsLowerAlnum(c) == IsIn(c, LowerChars) \/ IsDigit(c)

CompanyHeaders == {"Company Name", "Phone", "Owner Phone", "company_name", "company_phone"}

(* C7 (amended): a sheet is classified as an ownership record set if and   *)
(* only if its normalised columns include company_name or company_phone,   *)
(* whatever the values (also when every value is null); otherwise it is a  *)
(* property record set; every sheet is classified as exactly one of the two.*)
C7_ClassifiedByColumns ==
    LET sheets == ReadSheets(idx - 1)
    IN  /\ Len(prop_frames) + Len(owner_frames) = Len(sheets)
        /\ Len(owner_frames)
              = Cardinality({i \in 1..Len(sheets) : sheets[i].cols \cap CompanyHeaders # {}})
        /\ \A f \in Range(owner_frames) : {"company_name", "company_phone"} \cap f.cols # {}
        /\ \A f \in Range(prop_frames) : {"company_name", "company_phone"} \cap f.cols = {}

C7_Witness ==
    \E f \in Range(owner_frames) :
        /\ Len(f.rows) > 0
        /\ "company_name" \in f.cols
        /\ \A i \in 1..Len(f.rows) :
              IsNa(f.rows[i]["company_name"]) /\ IsNa(CellOr(f.rows[i], "company_phone"))

(* C7 as claimed: a sheet is an ownership record set if and only if it     *)
(* holds a non-null value in company_name or company_phone.                *)
C7_ClassifiedByValue ==
    /\ \A f \in Range(owner_frames) :
          \E i \in 1..Len(f.rows) :
              ~IsNa(CellOr(f.rows[i], "company_name"))
              \/ ~IsNa(CellOr(f.rows[i], "company_phone"))
    /\ \A f \in Range(prop_frames) :
          \A i \in 1..Len(f.rows) :
              IsNa(CellOr(f.rows[i], "company_name"))
              /\ IsNa(CellOr(f.rows[i], "company_phone"))

PastMerge == pc \in {"filter", "project", "done"}

(* C1: the Joiner produces exactly one merged row per property record (no  *)
(* fan-out, no drops), and the run does not fail at the merge when the     *)
(* ownership set is empty.                                                 *)
C1_OneMergedRowPerProperty ==
    /\ PastMerge => Len(merged.rows) = Len(prop_df.rows)
    /\ pc = "merge" /\ prop_frames # <<>> /\ owner_frames = <<>> => exc = "none"

\* the first half of C1 alone
C1_NoFanOut == PastMerge => Len(merged.rows) = Len(prop_df.rows)

(* C2: a property record whose join key is the empty string is matched to  *)
(* no ownership record: it comes out of the merge with null company_name,  *)
(* company_address and company_phone.                                      *)
C2_EmptyKeyUnmatched ==
    PastMerge /\ pc # "done" =>
        \A i \in 1..Len(merged.rows) :
            merged.rows[i]["address_key"] = Str(<<>>)
                => /\ IsNa(merged.rows[i]["company_name"])
                   /\ IsNa(merged.rows[i]["company_address"])
                   /\ IsNa(merged.rows[i]["company_phone"])

(* C3: in both workflows a file that cannot be parsed is reported and      *)
(* skipped: the run does not end at it, and once the loop is past it the   *)
(* failure has been reported.                                              *)
C3_ParseFailureIsolated ==
    \A k \in 1..Len(uploaded_files) :
        ~uploaded_files[k].readable =>
            /\ idx = k => exc = "none"
            /\ idx > k => \E e \in 1..Len(errors) : errors[e] = Msg("Could not read", k)

\* the filter predicate as the claim states it, a missing field counting as null
ClaimKeep(row) ==
    LET t == CellOr(row, "property_type")
        st == CellOr(row, "state")
        sz == CellOr(row, "size_sf")
    IN  /\ IsStr(t) /\ StrContains(StrLower(t.s), retail)
        /\ IsStr(st) /\ StrLower(st.s) = <<"s","c">>
        /\ IsNum(sz)
        /\ 1500 * Pow10(sz.sc) <= sz.n
        /\ sz.n <= 30000 * Pow10(sz.sc)

(* C4: the filter keeps a record if and only if its property_type contains*)
(* "retail" (any case), its state equals "SC" (any case) and its size_sf   *)
(* is non-null within [1500, 30000]; a record with a null or missing       *)
(* property_type, state or size_sf is dropped, and the filter raises no    *)
(* error.                                                                  *)
C4_FilterKeepsExactly ==
    /\ variant = "scrub" =>
          /\ exc = "none"
          /\ \A j \in 1..Len(frames) :
                frames[j].rows
                  = SelectSeq(FilterPrepare(normalise_columns(ReadSheets(idx - 1)[j])).rows,
                              ClaimKeep)
    /\ variant # "scrub" =>
          /\ pc = "filter" => exc = "none"
          /\ pc = "project" => result.rows = SelectSeq(merged.rows, ClaimKeep)

\* C4 without the no-error part: what is kept when the filter does not raise
C4_KeptWhenNoError ==
    /\ variant = "scrub" =>
          \A j \in 1..Len(frames) :
                frames[j].rows
                  = SelectSeq(FilterPrepare(normalise_columns(ReadSheets(idx - 1)[j])).rows,
                              ClaimKeep)
    /\ variant # "scrub" /\ pc = "project" =>
          result.rows = SelectSeq(merged.rows, ClaimKeep)

(* C5: when no record passes the filter over the whole run, the run halts  *)
(* with a message and offers no spreadsheet: it never reports success with *)
(* an empty result.                                                        *)
C5_NoMatchHalts ==
    /\ success # <<>> => success[1] > 0
    /\ download # <<>> => Len(download[1].rows) > 0

\* a null address: absent, null or empty
NoAddress(row) ==
    \/ IsNa(CellOr(row, "address"))
    \/ CellOr(row, "address") = Str(<<>>)

(* C8: the property-name fallback of the join key is decided per record:   *)
(* a record without address whose property name is available has the       *)
(* lower-cased, trimmed property name as key, whatever the other records   *)
(* of its sheet hold; a record with neither has the empty key.             *)
C8_FallbackPerRecord ==
    \A f \in JoinFrames : \A i \in 1..Len(f.rows) :
        LET r == f.rows[i]
            name == CellOr(r, "property_name")
        IN  NoAddress(r) =>
              r["address_key"]
                = IF IsNa(name) THEN Str(<<>>) ELSE Str(StrLower(StrStrip(AsStr(name))))

\* C8 for a record that has a property name, in the later join script
C8_NamedRecordFallsBack ==
    variant = "join" =>
        \A f \in JoinFrames : \A i \in 1..Len(f.rows) :
            LET r == f.rows[i]
                name == CellOr(r, "property_name")
            IN  NoAddress(r) /\ ~IsNa(name)
                    => r["address_key"] = Str(StrLower(StrStrip(AsStr(name))))

\* the size the claim expects for row i of sheet sh
ExpectedSize(sh, i) ==
    LET src == FirstPresent(size_cols, sh)
    IN  IF src = {} THEN NA ELSE _clean_numeric(sh.rows[i][CHOOSE c \in src : TRUE])

SameSize(a, b) == (IsNa(a) /\ IsNa(b)) \/ a = b

(* C10: in both workflows size_sf of a sheet comes from exactly one source *)
(* column, the first header of the priority list present among the sheet's *)
(* headers, numerically cleaned; lower-priority candidates are ignored;    *)
(* with no candidate present size_sf is null; also for a sheet with two or *)
(* more candidate headers.                                                 *)
C10_SizeFromFirstCandidate ==
    /\ exc # "ValueError"
    /\ \A j \in 1..Len(ReadSheets(idx - 1)) :
          LET sh == ReadSheets(idx - 1)[j]
              df == IF variant = "scrub" THEN FilterPrepare(normalise_columns(sh))
                    ELSE normalise(variant, sh)
          IN  \A i \in 1..Len(sh.rows) :
                  SameSize(df.rows[i]["size_sf"], ExpectedSize(sh, i))

\* C10 for the single-pass scrubber alone
C10_ScrubSizeFromFirstCandidate ==
    variant = "scrub" =>
        \A j \in 1..Len(ReadSheets(idx - 1)) :
            LET sh == ReadSheets(idx - 1)[j]
            IN  \A i \in 1..Len(sh.rows) :
                    SameSize(FilterPrepare(normalise_columns(sh)).rows[i]["size_sf"],
                             ExpectedSize(sh, i))

====
